---- MODULE Spec2Model ----
(***************************************************************************)
(* Model of ecobee.Client (src/ecobee/__init__.py): the credential record  *)
(* kept in the shelve store, the authorization methods, the gateway calls  *)
(* get/post with _handle_error, and the revision tracking of poll().       *)
(*                                                                         *)
(* Every method is an operator from the state it reads and the server's    *)
(* answers to the state it leaves, the requests it sent and the exception  *)
(* (if any) that reaches its caller.  An action applies one method call.   *)
(***************************************************************************)
EXTENDS Integers, Sequences, FiniteSets, TLC

VARIABLES auth, now, thermostat_ids, status, lastSeen, call, polled, served,
          observed, fetched, callers, approved

vars == <<auth, now, thermostat_ids, status, lastSeen, call, polled, served,
          observed, fetched, callers, approved>>

(* ------------------------------ bounds --------------------------------- *)

\* The clock (minutes) runs from 0 to MaxTime.
MaxTime == 1
\* The server's expires_in answers range over 0..MaxExpiresIn.
MaxExpiresIn == 1

(* ------------------------------ values --------------------------------- *)

\* Python's None, as stored in the shelve or returned by a method.
None == "None"

\* not x, for the values the store holds (None or a non-empty string).
Falsy(v) == v = None

\* The shelve store right after shelve.open on a new file.
EmptyStore == [k \in {} |-> None]

\* self.auth.get(k, default)
Get(a, k, default) == IF k \in DOMAIN a THEN a[k] ELSE default

\* self.auth[k] = v
Put(a, k, v) == [x \in (DOMAIN a) \cup {k} |-> IF x = k THEN v ELSE a[x]]

\* Pin codes the server issues (result['code'] of GET authorize).
Pins == {"pin1"}

\* Token pairs the server issues (POST token): each answer carries its own
\* access_token and refresh_token.
Tokens == { [access_token |-> "acc1", refresh_token |-> "ref1"],
            [access_token |-> "acc2", refresh_token |-> "ref2"] }

ExpiresIn == 0..MaxExpiresIn

\* What the server's token_type is for a real token.
Bearer == "Bearer"

\* No answer: the method sent nothing.
NoResponse == [kind |-> "none", code |-> None, tok |-> None, expires_in |-> 0]

\* Answers to GET authorize: a pin, a non-success status, or no connection.
GrantResponses ==
    { [kind |-> "ok", code |-> p, tok |-> None, expires_in |-> e] :
          p \in Pins, e \in ExpiresIn }
    \cup { [kind |-> k, code |-> None, tok |-> None, expires_in |-> 0] :
          k \in {"notok", "connerr"} }

\* Answers to POST token: a token pair, a non-success status with a JSON
\* body (error_description), a non-success status with a body that is not
\* JSON, or no connection.
TokenResponses ==
    { [kind |-> "ok", code |-> None, tok |-> t, expires_in |-> e] :
          t \in Tokens, e \in ExpiresIn }
    \cup { [kind |-> k, code |-> None, tok |-> None, expires_in |-> 0] :
          k \in {"notok", "notjson", "connerr"} }

(* ----------------------------- requests -------------------------------- *)

\* requests.get(url_base + 'authorize', params={response_type: 'ecobeePin', ...})
GrantRequest ==
    [verb |-> "GET", endpoint |-> "authorize", grant |-> "ecobeePin",
     code |-> None, token_type |-> None, payload |-> "params"]

\* requests.post(url_base + 'token', params={grant_type, code, client_id})
TokenRequest(grant_type, code) ==
    [verb |-> "POST", endpoint |-> "token", grant |-> grant_type,
     code |-> code, token_type |-> None, payload |-> "params"]

\* A request as it went out, with the kind of answer it met.
Sent(req, resp) == [req |-> req, answer |-> resp.kind]

\* What a method call leaves: the store, the requests sent, the exception
\* that reaches the caller ("" when it returns).
Outcome(a, net, exc) == [auth |-> a, net |-> net, exc |-> exc]

ConnectionError == "EcobeeException: Connection error"

(* -------------------------- authorization ------------------------------ *)

\* _authorize_update that leaves refresh_token as it was.
authorize_update_partial(a, t, net, resp) ==
    IF resp.kind = "notjson" THEN [auth |-> a, net |-> net, exc |-> "ValueError"]
    ELSE IF resp.kind # "ok" THEN [auth |-> a, net |-> net, exc |-> ""]
    ELSE LET a1 == Put(a,  "access_token",  resp.tok.access_token)
             a2 == Put(a1, "token_type",    Bearer)
             a4 == Put(a2, "expiration",    t + resp.expires_in)
             a5 == Put(a4, "required",      FALSE)
         IN  [auth |-> a5, net |-> net, exc |-> ""]

\* _authorize_update that drops the stored code when the exchange is refused.
authorize_update_dropping(a, t, net, resp) ==
    IF resp.kind = "notjson" THEN [auth |-> a, net |-> net, exc |-> "ValueError"]
    ELSE IF resp.kind # "ok"
         THEN [auth |-> Put(a, "access_token", None), net |-> net, exc |-> ""]
    ELSE LET a1 == Put(a,  "access_token",  resp.tok.access_token)
             a2 == Put(a1, "token_type",    Bearer)
             a3 == Put(a2, "refresh_token", resp.tok.refresh_token)
             a4 == Put(a3, "expiration",    t + resp.expires_in)
             a5 == Put(a4, "required",      FALSE)
         IN  [auth |-> a5, net |-> net, exc |-> ""]

\* Client._authorize_update, for an answer that arrived.
authorize_update(a, t, net, resp) ==
    IF resp.kind = "notjson" THEN Outcome(a, net, "ValueError")
    ELSE IF resp.kind # "ok" THEN Outcome(a, net, "")
    ELSE LET a1 == Put(a,  "access_token",  resp.tok.access_token)
             a2 == Put(a1, "token_type",    Bearer)
             a3 == Put(a2, "refresh_token", resp.tok.refresh_token)
             a4 == Put(a3, "expiration",    t + resp.expires_in)
             a5 == Put(a4, "required",      FALSE)
         IN  Outcome(a5, net, "")

RECURSIVE authorize_start(_, _, _)
RECURSIVE authorize_finish(_, _, _)

\* Client.authorize_finish
authorize_finish(a, t, resp) ==
    IF Falsy(Get(a, "access_token", None)) THEN Outcome(a, <<>>, "")
    ELSE IF "expiration" \notin DOMAIN a THEN Outcome(a, <<>>, "KeyError")
    ELSE IF t > a["expiration"]
         THEN authorize_start(Put(a, "access_token", None), t, resp)
    ELSE LET req == Sent(TokenRequest("ecobeePin", a["access_token"]), resp)
         IN  IF resp.kind = "connerr"
             THEN Outcome(a, <<req>>, ConnectionError)
             ELSE authorize_update(a, t, <<req>>, resp)

\* authorize_start without the write of required.
authorize_start_unflagged(a, t, resp) ==
    LET req == Sent(GrantRequest, resp)
    IN  IF ~Falsy(Get(a, "refresh_token", None)) THEN Outcome(a, <<>>, "")
        ELSE IF Get(a, "token_type", None) = "authorize"
             THEN authorize_finish(a, t, resp)
        ELSE IF resp.kind = "connerr"
             THEN Outcome(a, <<req>>, ConnectionError)
        ELSE IF resp.kind # "ok" THEN Outcome(a, <<req>>, "")
        ELSE LET a1 == Put(a,  "access_token",  resp.code)
                 a2 == Put(a1, "token_type",    "authorize")
                 a3 == Put(a2, "expiration",    t + resp.expires_in)
                 a4 == Put(a3, "refresh_token", None)
             IN  Outcome(a4, <<req>>, "")

\* authorize_start with the connection error of the grant request swallowed
\* like a non-success status.
authorize_start_quiet(a, t, resp) ==
    LET a0 == Put(a, "required", TRUE)
        req == Sent(GrantRequest, resp)
    IN  IF ~Falsy(Get(a0, "refresh_token", None)) THEN Outcome(a0, <<>>, "")
        ELSE IF Get(a0, "token_type", None) = "authorize"
             THEN authorize_finish(a0, t, resp)
        ELSE IF resp.kind # "ok" THEN Outcome(a0, <<req>>, "")
        ELSE LET a1 == Put(a0, "access_token",  resp.code)
                 a2 == Put(a1, "token_type",    "authorize")
                 a3 == Put(a2, "expiration",    t + resp.expires_in)
                 a4 == Put(a3, "refresh_token", None)
             IN  Outcome(a4, <<req>>, "")

\* Client.authorize_start
authorize_start(a, t, resp) ==
    LET a0 == Put(a, "required", TRUE)
        req == Sent(GrantRequest, resp)
    IN  IF ~Falsy(Get(a0, "refresh_token", None)) THEN Outcome(a0, <<>>, "")
        ELSE IF Get(a0, "token_type", None) = "authorize"
             THEN authorize_finish(a0, t, resp)
        ELSE IF resp.kind = "connerr"
             THEN Outcome(a0, <<req>>, ConnectionError)
        ELSE IF resp.kind # "ok" THEN Outcome(a0, <<req>>, "")
        ELSE LET a1 == Put(a0, "access_token",  resp.code)
                 a2 == Put(a1, "token_type",    "authorize")
                 a3 == Put(a2, "expiration",    t + resp.expires_in)
                 a4 == Put(a3, "refresh_token", None)
             IN  Outcome(a4, <<req>>, "")

\* authorize_refresh with the expiry test turned round.
authorize_refresh_inverted(a, t, force, resp) ==
    IF Falsy(Get(a, "refresh_token", None)) THEN authorize_start(a, t, resp)
    ELSE IF "expiration" \in DOMAIN a /\ a["expiration"] < t
         THEN Outcome(a, <<>>, "")
    ELSE LET req == Sent(TokenRequest("refresh_token", a["refresh_token"]), resp)
         IN  IF resp.kind = "connerr"
             THEN Outcome(a, <<req>>, ConnectionError)
             ELSE authorize_update(a, t, <<req>>, resp)

\* Client.authorize_refresh; the force argument is never read.
authorize_refresh(a, t, force, resp) ==
    IF Falsy(Get(a, "refresh_token", None)) THEN authorize_start(a, t, resp)
    ELSE IF "expiration" \in DOMAIN a /\ a["expiration"] > t
         THEN Outcome(a, <<>>, "")
    ELSE LET req == Sent(TokenRequest("refresh_token", a["refresh_token"]), resp)
         IN  IF resp.kind = "connerr"
             THEN Outcome(a, <<req>>, ConnectionError)
             ELSE authorize_update(a, t, <<req>>, resp)

\* Client.authentication_required
authentication_required(a) == Get(a, "required", TRUE)

(* ------------------------------ gateway -------------------------------- *)

\* The status code with which the server reports a revoked authorization.
AuthRevoked == 16

\* Status codes of the server's error answers: 14 (token needs refresh),
\* 16 (authorization revoked), 3 (any other error).
ErrorCodes == {3, 14, AuthRevoked}

\* Answers to an authenticated request: a JSON result, a non-success status
\* with a JSON body {status: {code, message}}, a non-success status with a
\* body that is not JSON, or no connection.
\* No answer: the authenticated request was not sent.
NoApi == [kind |-> "none", code |-> 0]

ApiResponses ==
    { [kind |-> k, code |-> 0] : k \in {"ok", "notjson", "connerr"} }
    \cup { [kind |-> "error", code |-> c] : c \in ErrorCodes }

\* Client._headers: the Authorization header, or the KeyError of a key the
\* store does not hold.
HeadersRaise(a) == ~({"token_type", "access_token"} \subseteq DOMAIN a)

\* The authenticated request as handed to the requests library.
ApiRequest(verb, endpoint, payload, a) ==
    [verb |-> verb, endpoint |-> endpoint, grant |-> None,
     code |-> a["access_token"], token_type |-> a["token_type"],
     payload |-> payload]

\* What a gateway call leaves: as Outcome, with the value returned
\* ("json": r.json(); None: nothing).
Result(a, net, exc, ret) == [auth |-> a, net |-> net, exc |-> exc, ret |-> ret]

StatusError(code) ==
    IF code = 14 THEN "EcobeeException: 14: message"
    ELSE IF code = 16 THEN "EcobeeException: 16: message"
    ELSE "EcobeeException: 3: message"

NotJsonError == "EcobeeException: Response not JSON: text"

\* _handle_error that clears the tokens on a body that is not JSON too.
handle_error_clears(a, t, net, api, r2) ==
    IF api.kind = "notjson"
    THEN Result(Put(Put(a, "refresh_token", None), "token_type", None),
                net, NotJsonError, None)
    ELSE IF api.code = AuthRevoked
         THEN LET a1 == Put(a,  "refresh_token", None)
                  a2 == Put(a1, "token_type",    None)
                  o  == authorize_start(a2, t, r2)
              IN  Result(o.auth, net \o o.net, o.exc, None)
    ELSE Result(a, net, StatusError(api.code), None)

\* _handle_error that clears token_type alone on code 16.
handle_error_keeps_refresh(a, t, net, api, r2) ==
    IF api.kind = "notjson" THEN Result(a, net, NotJsonError, None)
    ELSE IF api.code = AuthRevoked
         THEN LET a2 == Put(a, "token_type", None)
                  o  == authorize_start(a2, t, r2)
              IN  Result(o.auth, net \o o.net, o.exc, None)
    ELSE Result(a, net, StatusError(api.code), None)

\* _handle_error that sends the request again once the grant is under way.
handle_error_retries(a, t, net, api, r2) ==
    IF api.kind = "notjson" THEN Result(a, net, NotJsonError, None)
    ELSE IF api.code = AuthRevoked
         THEN LET a1 == Put(a,  "refresh_token", None)
                  a2 == Put(a1, "token_type",    None)
                  o  == authorize_start(a2, t, r2)
              IN  Result(o.auth, net \o o.net \o <<net[Len(net)]>>, o.exc, None)
    ELSE Result(a, net, StatusError(api.code), None)

\* Client._handle_error, for a non-success answer; r2 answers the grant
\* request that authorize_start may send.
handle_error(a, t, net, api, r2) ==
    IF api.kind = "notjson" THEN Result(a, net, NotJsonError, None)
    ELSE IF api.code = AuthRevoked
         THEN LET a1 == Put(a,  "refresh_token", None)
                  a2 == Put(a1, "token_type",    None)
                  o  == authorize_start(a2, t, r2)
              IN  Result(o.auth, net \o o.net, o.exc, None)
    ELSE Result(a, net, StatusError(api.code), None)

\* Client.get
get(a, t, endpoint, r1, api, r2) ==
    LET o == authorize_refresh(a, t, TRUE, r1)
    IN  IF o.exc # "" THEN Result(o.auth, o.net, o.exc, None)
        ELSE IF HeadersRaise(o.auth) THEN Result(o.auth, o.net, "KeyError", None)
        ELSE LET net == o.net \o
                        <<Sent(ApiRequest("GET", endpoint, "params.json", o.auth), api)>>
             IN  IF api.kind = "connerr"
                 THEN Result(o.auth, net, ConnectionError, None)
                 ELSE IF api.kind # "ok"
                 THEN handle_error(o.auth, t, net, api, r2)
                 ELSE Result(o.auth, net, "", "json")

\* Client.post; the request goes out through requests.get.
post(a, t, endpoint, r1, api, r2) ==
    LET o == authorize_refresh(a, t, TRUE, r1)
    IN  IF o.exc # "" THEN Result(o.auth, o.net, o.exc, None)
        ELSE IF HeadersRaise(o.auth) THEN Result(o.auth, o.net, "KeyError", None)
        ELSE LET net == o.net \o
                        <<Sent(ApiRequest("GET", endpoint, "data", o.auth), api)>>
             IN  IF api.kind = "connerr"
                 THEN Result(o.auth, net, ConnectionError, None)
                 ELSE IF api.kind # "ok"
                 THEN handle_error(o.auth, t, net, api, r2)
                 ELSE Result(o.auth, net, "", "json")

(* ----------------------- the server's answers -------------------------- *)

\* The answers the server can give to the request a method sends: the
\* request does not depend on the answer, so it is read off a run of the
\* method with no answer.
AnswersTo(net) ==
    IF net = <<>> THEN {NoResponse}
    ELSE IF net[1].req.endpoint = "authorize" THEN GrantResponses
    ELSE TokenResponses

\* The answers to the authenticated request: none when the call ends before
\* it is sent (authorize_refresh or _headers raised).
ApiAnswers(o) ==
    IF o.exc # "" \/ HeadersRaise(o.auth) THEN {NoApi} ELSE ApiResponses

\* The answers to the grant request sent by _handle_error on code 16; any
\* other answer to the authenticated request sends none.
RegrantAnswers(api) ==
    IF api.kind = "error" /\ api.code = AuthRevoked THEN GrantResponses
    ELSE {NoResponse}

(* ------------------------- revision tracking --------------------------- *)

\* Thermostat identifiers and interval revisions the server reports.
Devices == {"t1", "t2"}
Revisions == {"r1", "r2"}

\* A row of revisionList, as the sequence of its characters' groups: the
\* seven fields identifier, name, connected, thermostat revision, alerts
\* revision, runtime revision, interval revision, with ":" between them.
Row(id, rev) ==
    <<id, ":", "name", ":", "true", ":", "rT", ":", "rA", ":", "rR", ":", rev>>

\* str.split(sep): the fields of s.
RECURSIVE Split(_, _)
Split(s, sep) ==
    IF s = <<>> THEN << <<>> >>
    ELSE LET rest == Split(Tail(s), sep)
         IN  IF Head(s) = sep THEN << <<>> >> \o rest
             ELSE << <<Head(s)>> \o rest[1] >> \o Tail(rest)

\* The string a field spells.
Text(field) == IF field = <<>> THEN "" ELSE field[1]

\* row.split(':', 1)[0]
FirstField(row) == Text(Split(row, ":")[1])

\* The revisionList of a summary: the devices of ids, in that order, each
\* with the interval revision revs gives it.
RevisionList(ids, revs) == [i \in 1..Len(ids) |-> Row(ids[i], revs[ids[i]])]

\* Orders in which the server lists devices.
DeviceLists ==
    {<<>>} \cup { <<d>> : d \in Devices }
    \cup { <<p[1], p[2]>> : p \in { q \in Devices \X Devices : q[1] # q[2] } }

\* The data of a successful thermostatSummary answer: with a revisionList,
\* or a JSON body without one.
Summaries ==
    { [has |-> TRUE, revisionList |-> RevisionList(ids, revs)] :
          ids \in DeviceLists, revs \in [Devices -> Revisions] }
    \cup { [has |-> FALSE, revisionList |-> <<>>] }

\* dict.get(k) of lastSeen and of _status
Lookup(m, k) == IF k \in DOMAIN m THEN m[k] ELSE None

InList(x, l) == \E i \in 1..Len(l) : l[i] = x

\* The elements of a list.
Members(l) == { l[i] : i \in 1..Len(l) }

\* The loop of thermostatSummary with the registry replaced by the new id.
RECURSIVE register_replacing(_, _, _)
register_replacing(rows, ids, st) ==
    IF rows = <<>> THEN [ids |-> ids, status |-> st]
    ELSE LET tid == FirstField(Head(rows))
         IN  IF InList(tid, ids) THEN register_replacing(Tail(rows), ids, st)
             ELSE register_replacing(Tail(rows), <<tid>>, Put(st, tid, "{}"))

\* The loop of thermostatSummary over data['revisionList'].
RECURSIVE register(_, _, _)
register(rows, ids, st) ==
    IF rows = <<>> THEN [ids |-> ids, status |-> st]
    ELSE LET tid == FirstField(Head(rows))
         IN  IF InList(tid, ids) THEN register(Tail(rows), ids, st)
             ELSE register(Tail(rows), Append(ids, tid), Put(st, tid, "{}"))

\* What poll and thermostatSummary leave: as Result, with the registry, the
\* status cache, lastSeen and the list poll returns.
PollResult(g, ids, st, seen, updated) ==
    [auth |-> g.auth, net |-> g.net, exc |-> g.exc, ret |-> g.ret,
     ids |-> ids, status |-> st, lastSeen |-> seen, updated |-> updated]

\* Client.thermostatSummary
thermostatSummary(a, t, ids, st, r1, api, r2, data) ==
    LET g == get(a, t, "thermostatSummary", r1, api, r2)
    IN  IF g.exc # "" THEN [g |-> g, ids |-> ids, status |-> st]
        ELSE IF g.ret = None
             THEN [g |-> [g EXCEPT !.exc = "TypeError"], ids |-> ids, status |-> st]
        ELSE IF ~data.has
             THEN [g |-> [g EXCEPT !.exc = "KeyError", !.ret = None],
                   ids |-> ids, status |-> st]
        ELSE LET reg == register(data.revisionList, ids, st)
             IN  [g |-> g, ids |-> reg.ids, status |-> reg.status]

\* The field before the interval revision: revision.split(":")[5].
RuntimeRevision(parts) == Text(parts[6])

\* The interval revision of a row: revision.split(":")[6].
IntervalRevision(parts) == Text(parts[7])

\* The loop of poll without the write to lastSeen.
RECURSIVE revisions_forgetful(_, _, _)
revisions_forgetful(rows, seen, updated) ==
    IF rows = <<>> THEN [lastSeen |-> seen, updated |-> updated]
    ELSE LET parts == Split(Head(rows), ":")
             identifier == Text(parts[1])
             intervalRevision == IntervalRevision(parts)
         IN  IF intervalRevision # Lookup(seen, identifier)
             THEN revisions_forgetful(Tail(rows), seen, Append(updated, identifier))
             ELSE revisions_forgetful(Tail(rows), seen, updated)

\* The loop of poll over summary['revisionList'].
RECURSIVE revisions(_, _, _)
revisions(rows, seen, updated) ==
    IF rows = <<>> THEN [lastSeen |-> seen, updated |-> updated]
    ELSE LET parts == Split(Head(rows), ":")
             identifier == Text(parts[1])
             intervalRevision == IntervalRevision(parts)
         IN  IF intervalRevision # Lookup(seen, identifier)
             THEN revisions(Tail(rows), Put(seen, identifier, intervalRevision),
                            Append(updated, identifier))
             ELSE revisions(Tail(rows), seen, updated)

\* poll that forgets what it had seen before it goes through the summary.
poll_resetting(a, t, ids, st, seen, r1, api, r2, data) ==
    LET s == thermostatSummary(a, t, ids, st, r1, api, r2, data)
    IN  IF s.g.exc # "" THEN PollResult(s.g, s.ids, s.status, seen, <<>>)
        ELSE LET r == revisions(data.revisionList, [k \in {} |-> None], <<>>)
             IN  PollResult(s.g, s.ids, s.status, r.lastSeen, r.updated)

\* Client.poll
poll(a, t, ids, st, seen, r1, api, r2, data) ==
    LET s == thermostatSummary(a, t, ids, st, r1, api, r2, data)
    IN  IF s.g.exc # "" THEN PollResult(s.g, s.ids, s.status, seen, <<>>)
        ELSE LET r == revisions(data.revisionList, seen, <<>>)
             IN  PollResult(s.g, s.ids, s.status, r.lastSeen, r.updated)

\* m with the entries of n written over it.
Over(m, n) ==
    [k \in (DOMAIN m) \cup (DOMAIN n) |-> IF k \in DOMAIN n THEN n[k] ELSE m[k]]

(* --------------------------- cached status ----------------------------- *)

\* self._status[tid] of a registered device before any data is fetched ({}),
\* and once update() has stored the thermostat's data (a dict with 'name').
NoData == "{}"
Data == "data"

\* The answers to the requests of one gateway call: to the authorization
\* request, to the authenticated request, to the grant request on code 16.
Answers(r1, api, r2) == [r1 |-> r1, api |-> api, r2 |-> r2]

\* What update, get_thermostat and list_thermostats leave: as Result, with
\* the registry, the status cache and whether the summary was gone through.
UpdateResult(a, net, exc, ret, ids, st, summarised) ==
    [auth |-> a, net |-> net, exc |-> exc, ret |-> ret,
     ids |-> ids, status |-> st, summarised |-> summarised]

\* update goes through a summary first: no identifier given, none known.
Fetches(ids, arg) == arg = None /\ ids = <<>>

\* The first step of update: thermostatSummary() when there is no id to use.
Summarise(a, t, ids, st, arg, sa, data) ==
    IF Fetches(ids, arg)
    THEN thermostatSummary(a, t, ids, st, sa.r1, sa.api, sa.r2, data)
    ELSE [g |-> Result(a, <<>>, "", None), ids |-> ids, status |-> st]

\* The end of update, lines 241-250: g is what the /thermostat request
\* left after the summary step s; a result without a body cannot be read,
\* otherwise the data of each returned device is stored.
update_store(s, g, fetch, returned) ==
    IF g.exc # ""
    THEN UpdateResult(g.auth, s.g.net \o g.net, g.exc, None, s.ids, s.status, fetch)
    ELSE IF g.ret = None
    THEN UpdateResult(g.auth, s.g.net \o g.net, "TypeError", None, s.ids, s.status,
                      fetch)
    ELSE UpdateResult(g.auth, s.g.net \o g.net, "", None, s.ids,
                      Over(s.status, [d \in returned |-> Data]), fetch)

\* update after its summary step s: an exception of the summary reaches the
\* caller, otherwise the /thermostat request is made.
update_fetch(s, t, ga, fetch, returned) ==
    IF s.g.exc # ""
    THEN UpdateResult(s.g.auth, s.g.net, s.g.exc, None, s.ids, s.status, FALSE)
    ELSE update_store(s, get(s.g.auth, t, "thermostat", ga.r1, ga.api, ga.r2),
                      fetch, returned)

\* Client.update(thermostat_ids=arg); sa and data answer the summary request
\* it makes when there is no id to use, ga the /thermostat request, and
\* returned are the identifiers of data['thermostatList'].
update(a, t, ids, st, arg, sa, data, ga, returned) ==
    update_fetch(Summarise(a, t, ids, st, arg, sa, data), t, ga,
                 Fetches(ids, arg), returned)

\* The identifiers update asks the server for: selectionMatch.
Requested(ids, arg) == IF arg = None THEN Members(ids) ELSE {arg}

\* The return of get_thermostat, lines 326-328: u is what update left.
get_thermostat_return(tid, u) ==
    IF u.exc # "" THEN u
    ELSE [u EXCEPT !.ret = IF InList(tid, u.ids) THEN tid ELSE None]

\* Client.get_thermostat(thermostat_id)
get_thermostat(a, t, ids, st, tid, sa, data, ga, returned) ==
    get_thermostat_return(tid,
        IF ids = <<>>
        THEN update(a, t, ids, st, None, sa, data, ga, returned)
        ELSE UpdateResult(a, <<>>, "", None, ids, st, FALSE))

\* Client.list_thermostats
list_thermostats(ids) == ids

\* The return of Thermostat.poll, lines 477-479: r is what Client.poll left.
Thermostat_poll_return(tid, r) ==
    IF r.exc # "" THEN r
    ELSE IF tid \notin DOMAIN r.status THEN [r EXCEPT !.exc = "KeyError"]
    ELSE IF r.status[tid] = Data /\ ~InList(tid, r.updated)
         THEN [r EXCEPT !.ret = "False"]
         ELSE [r EXCEPT !.ret = "True"]

\* Thermostat.poll of the Thermostat made for tid (Sensor.poll calls it).
Thermostat_poll(tid, a, t, ids, st, seen, r1, api, r2, data) ==
    Thermostat_poll_return(tid, poll(a, t, ids, st, seen, r1, api, r2, data))

(* ---------------------- objects.Thermostat.updated --------------------- *)

\* The device the objects.Thermostat is made for.
Observer == "t1"

\* Python's < on the revision strings.
Before(a, b) == a = "r1" /\ b = "r2"

\* objects.Thermostat.updated: own is self.lastSeen, seen the client's
\* lastSeen, id self.id.
Thermostat_updated(own, seen, id) ==
    IF Falsy(own)
    THEN IF id \in DOMAIN seen
         THEN [lastSeen |-> seen[id], ret |-> "True"]
         ELSE [lastSeen |-> own, ret |-> "False"]
    ELSE IF Before(own, seen[id])
         THEN [lastSeen |-> seen[id], ret |-> "True"]
         ELSE [lastSeen |-> own, ret |-> "False"]

(* ------------------------------- state --------------------------------- *)

\* auth            the shelve store self.auth: the credential record
\* now             datetime.datetime.now(), in minutes
\* thermostat_ids  self.thermostat_ids
\* status          self._status
\* lastSeen        self.lastSeen
\* call            the method call that led here: its name and arguments,
\*                 the store and the time it started from, the requests
\*                 it sent, the exception that reached the caller, the
\*                 value returned, the server's answer to the
\*                 authenticated request
\* polled          for a call of poll: lastSeen before the call, the
\*                 summary the server answered with, the list returned
\* served          per device, the interval revision of the most recent
\*                 summary poll() went through that listed the device
\* observed        self.lastSeen of an objects.Thermostat made for Observer
\* fetched         per device, the revision the server had for it when
\*                 update() last fetched its data
\* callers         per thread inside authorize_refresh on the shared store:
\*                 the statement it is at, the token response it holds and
\*                 the expiration it computed from it
\* approved        the user has approved the pending pin on the ecobee portal
\* (served, fetched and approved are not the client's: they record what
\* the server answered and what the user did, for the properties to refer
\* to.)

NoSummary == [has |-> FALSE, revisionList |-> <<>>]
EmptyMap == [k \in {} |-> None]

\* The record of a call of an authorization method.
AuthCall(op, force, pre, t, o) ==
    [op |-> op, force |-> force, pre |-> pre, at |-> t, net |-> o.net,
     exc |-> o.exc, ret |-> None, api |-> NoApi, arg |-> None]

\* The record of a gateway call.
GatewayCall(op, pre, t, g, api) ==
    [op |-> op, force |-> TRUE, pre |-> pre, at |-> t, net |-> g.net,
     exc |-> g.exc, ret |-> g.ret, api |-> api, arg |-> None]

\* The record of a call of poll.
PollCall(pre, t, r, api) ==
    [op |-> "poll", force |-> TRUE, pre |-> pre, at |-> t, net |-> r.net,
     exc |-> r.exc, ret |-> r.ret, api |-> api, arg |-> None]

\* The record of a call of a method of the registry or of a Thermostat: its
\* name, its argument (or the object's own value it started from), the
\* exception that reached the caller, the value returned and the answer to
\* its last authenticated request.  The store it started from and the
\* requests it sent are not kept.
MethodCall(op, arg, t, r, api) ==
    [op |-> op, force |-> TRUE, pre |-> EmptyStore, at |-> t, net |-> <<>>,
     exc |-> r.exc, ret |-> r.ret, api |-> api, arg |-> arg]

\* What a call of poll saw and returned.
Polled(seen, data, updated) ==
    [seen |-> seen, summary |-> data, updated |-> updated]

\* Client.__init__(apikey, thermostat_ids=ids) on a new store, then
\* authorize_refresh().  A constructor that raises leaves the store as
\* written so far, for the client constructed on it next.
Construct(ids) ==
    /\ now = 0
    /\ \E r \in GrantResponses :
       \E o \in {authorize_refresh(EmptyStore, 0, TRUE, r)} :
          /\ auth = o.auth
          /\ call = AuthCall("__init__", TRUE, EmptyStore, 0, o)
    /\ thermostat_ids = ids
    /\ status = [tid \in {ids[i] : i \in 1..Len(ids)} |-> "{}"]
    /\ lastSeen = EmptyMap
    /\ polled = Polled(EmptyMap, NoSummary, <<>>)
    /\ served = EmptyMap
    /\ observed = None
    /\ fetched = EmptyMap
    /\ callers = EmptyMap
    /\ approved = FALSE

\* A client constructed without thermostat_ids.
Init == Construct(<<>>)

\* A client constructed without thermostat_ids, or with one.
PollInit == \E ids \in {<<>>, <<"t1">>} : Construct(ids)

(* ------------------------------ actions -------------------------------- *)

\* Time passes.
Tick ==
    /\ now < MaxTime
    /\ now' = now + 1
    /\ UNCHANGED <<auth, thermostat_ids, status, lastSeen, served, call, polled,
                   observed, fetched, callers, approved>>

\* The caller calls authorize_start().
CallAuthorizeStart ==
    \E r \in AnswersTo(authorize_start(auth, now, NoResponse).net) :
    \E o \in {authorize_start(auth, now, r)} :
        /\ auth' = o.auth
        /\ call' = AuthCall("authorize_start", FALSE, auth, now, o)
        /\ UNCHANGED <<now, thermostat_ids, status, lastSeen, polled, served,
                       observed, fetched, callers, approved>>

\* The caller calls authorize_finish().
CallAuthorizeFinish ==
    \E r \in AnswersTo(authorize_finish(auth, now, NoResponse).net) :
    \E o \in {authorize_finish(auth, now, r)} :
        /\ auth' = o.auth
        /\ call' = AuthCall("authorize_finish", FALSE, auth, now, o)
        /\ UNCHANGED <<now, thermostat_ids, status, lastSeen, polled, served,
                       observed, fetched, callers, approved>>

\* The caller calls authorize_refresh(force).
CallAuthorizeRefresh ==
    \E force \in BOOLEAN :
    \E r \in AnswersTo(authorize_refresh(auth, now, force, NoResponse).net) :
    \E o \in {authorize_refresh(auth, now, force, r)} :
        /\ auth' = o.auth
        /\ call' = AuthCall("authorize_refresh", force, auth, now, o)
        /\ UNCHANGED <<now, thermostat_ids, status, lastSeen, polled, served,
                       observed, fetched, callers, approved>>

\* The caller calls get(endpoint, data).
CallGet ==
    \E r1 \in AnswersTo(authorize_refresh(auth, now, TRUE, NoResponse).net) :
    \E api \in ApiAnswers(authorize_refresh(auth, now, TRUE, r1)) :
    \E r2 \in RegrantAnswers(api) :
    \E g \in {get(auth, now, "thermostat", r1, api, r2)} :
        /\ auth' = g.auth
        /\ call' = GatewayCall("get", auth, now, g, api)
        /\ UNCHANGED <<now, thermostat_ids, status, lastSeen, polled, served,
                       observed, fetched, callers, approved>>

\* The caller calls post(endpoint, data).
CallPost ==
    \E r1 \in AnswersTo(authorize_refresh(auth, now, TRUE, NoResponse).net) :
    \E api \in ApiAnswers(authorize_refresh(auth, now, TRUE, r1)) :
    \E r2 \in RegrantAnswers(api) :
    \E g \in {post(auth, now, "thermostat", r1, api, r2)} :
        /\ auth' = g.auth
        /\ call' = GatewayCall("post", auth, now, g, api)
        /\ UNCHANGED <<now, thermostat_ids, status, lastSeen, polled, served,
                       observed, fetched, callers, approved>>

\* The interval revisions a summary lists, by device: the first and the
\* last element of each row.
Listed(data) ==
    [d \in { data.revisionList[i][1] : i \in 1..Len(data.revisionList) } |->
        LET i == CHOOSE j \in 1..Len(data.revisionList) :
                     data.revisionList[j][1] = d
        IN  data.revisionList[i][Len(data.revisionList[i])]]

\* The summaries the server can answer with: one only when the answer is
\* a success.
SummariesOf(api) == IF api.kind = "ok" THEN Summaries ELSE {NoSummary}

\* The answers of a server whose grants all carry the same code or tokens
\* and the longest lifetime: the revision tracking reads none of them.
Steady(answers) ==
    { r \in answers : r.kind = "ok" =>
          /\ r.expires_in = MaxExpiresIn
          /\ r.code \in {None, "pin1"}
          /\ r.kind = "ok" /\ r.code = None => r.tok.access_token = "acc1" }

\* The caller calls poll().
CallPoll ==
    \E r1 \in Steady(AnswersTo(authorize_refresh(auth, now, TRUE, NoResponse).net)) :
    \E api \in ApiAnswers(authorize_refresh(auth, now, TRUE, r1)) :
    \E r2 \in Steady(RegrantAnswers(api)) :
    \E data \in SummariesOf(api) :
    \E r \in {poll(auth, now, thermostat_ids, status, lastSeen, r1, api, r2, data)} :
        /\ auth' = r.auth
        /\ thermostat_ids' = r.ids
        /\ status' = r.status
        /\ lastSeen' = r.lastSeen
        /\ served' = IF r.exc = "" THEN Over(served, Listed(data)) ELSE served
        /\ call' = PollCall(auth, now, r, api)
        /\ polled' = Polled(lastSeen, data, r.updated)
        /\ UNCHANGED <<now, observed, fetched, callers, approved>>

\* No request was sent: no answers.
NoAnswers == Answers(NoResponse, NoApi, NoResponse)

\* One answer of each kind that the registry and the status cache can tell
\* apart: a success, a refusal of an authorization request, a connection
\* error or a code 16 to an authenticated request.  (Codes 3 and 14 and a
\* body that is not JSON raise like a connection error, from the same
\* place.)
Telling(answers) ==
    { r \in answers :
          \/ r.kind \in {"none", "ok", "notok"}
          \/ r.kind = "connerr" /\ r \in ApiResponses
          \/ r.kind = "error" /\ r.code = AuthRevoked }

\* The answers the server can give to the requests of a gateway call made
\* on store a at time t.
GatewayAnswers(a, t) ==
    UNION { UNION { { Answers(r1, api, r2) : r2 \in Telling(Steady(RegrantAnswers(api))) } :
                    api \in Telling(ApiAnswers(authorize_refresh(a, t, TRUE, r1))) } :
            r1 \in Telling(Steady(AnswersTo(authorize_refresh(a, t, TRUE, NoResponse).net))) }

\* The summaries as the registry reads them: any devices in any order (the
\* registry reads no revision, so each has the first), or no revisionList.
ListingsOf(api) ==
    IF api.kind # "ok" THEN {NoSummary}
    ELSE { [has |-> TRUE, revisionList |-> RevisionList(ids, [d \in Devices |-> "r1"])] :
               ids \in DeviceLists }
         \cup {NoSummary}

\* The latest revision of device d that the server has shown: in a summary
\* or at an update.
Latest(d) ==
    LET s == Lookup(served, d)
        f == Lookup(fetched, d)
    IN  IF s = None THEN f
        ELSE IF f = None THEN s
        ELSE IF Before(s, f) THEN f ELSE s

\* The revisions the server can have for the devices ds: a revision only
\* moves forward, so none is before the latest one shown.
Current(ds) ==
    { revs \in [ds -> Revisions] :
          \A d \in ds : Latest(d) = None \/ ~Before(revs[d], Latest(d)) }

\* The summaries of a server that lists every device each time, at its
\* current revision.
ReadingsOf(api) ==
    IF api.kind # "ok" THEN {NoSummary}
    ELSE { [has |-> TRUE, revisionList |-> RevisionList(<<"t1", "t2">>, revs)] :
               revs \in Current(Devices) }

\* The caller calls thermostatSummary().
CallThermostatSummary ==
    \E ans \in GatewayAnswers(auth, now) :
    \E data \in ListingsOf(ans.api) :
    \E s \in {thermostatSummary(auth, now, thermostat_ids, status,
                                ans.r1, ans.api, ans.r2, data)} :
        /\ auth' = s.g.auth
        /\ thermostat_ids' = s.ids
        /\ status' = s.status
        /\ call' = MethodCall("thermostatSummary", None, now, s.g, ans.api)
        /\ polled' = Polled(lastSeen, data, <<>>)
        /\ UNCHANGED <<now, lastSeen, served, observed, fetched,
                       callers, approved>>

\* update(thermostat_ids=arg) is called, by the caller (op "update") or by
\* Thermostat.update (op "Thermostat.update").
Update(op, arg) ==
    \E sa \in (IF Fetches(thermostat_ids, arg)
               THEN GatewayAnswers(auth, now) ELSE {NoAnswers}) :
    \E data \in (IF Fetches(thermostat_ids, arg)
                 THEN ListingsOf(sa.api) ELSE {NoSummary}) :
    \E s \in {Summarise(auth, now, thermostat_ids, status, arg, sa, data)} :
    \E ga \in (IF s.g.exc # "" THEN {NoAnswers} ELSE GatewayAnswers(s.g.auth, now)) :
    \E returned \in (IF ga.api.kind = "ok"
                     THEN SUBSET Requested(s.ids, arg) ELSE {{}}) :
    \E revs \in Current(returned) :
    \E u \in {update(auth, now, thermostat_ids, status, arg, sa, data, ga, returned)} :
        /\ auth' = u.auth
        /\ thermostat_ids' = u.ids
        /\ status' = u.status
        /\ fetched' = IF u.exc = "" THEN Over(fetched, revs) ELSE fetched
        /\ call' = MethodCall(op, arg, now, u, ga.api)
        /\ polled' = Polled(lastSeen, IF u.summarised THEN data ELSE NoSummary, <<>>)
        /\ UNCHANGED <<now, lastSeen, served, observed, callers, approved>>

\* The caller calls poll(), as the registry sees it.
CallPollListing ==
    \E ans \in GatewayAnswers(auth, now) :
    \E data \in ListingsOf(ans.api) :
    \E r \in {poll(auth, now, thermostat_ids, status, lastSeen,
                    ans.r1, ans.api, ans.r2, data)} :
        /\ auth' = r.auth
        /\ thermostat_ids' = r.ids
        /\ status' = r.status
        /\ lastSeen' = r.lastSeen
        /\ served' = IF r.exc = "" THEN Over(served, Listed(data)) ELSE served
        /\ call' = MethodCall("poll", None, now, r, ans.api)
        /\ polled' = Polled(lastSeen, data, r.updated)
        /\ UNCHANGED <<now, observed, fetched, callers, approved>>

\* The caller calls update().
CallUpdate == Update("update", None)

\* The caller calls get_thermostat(tid).
CallGetThermostat ==
    \E tid \in Devices :
    \E sa \in (IF thermostat_ids = <<>>
               THEN GatewayAnswers(auth, now) ELSE {NoAnswers}) :
    \E data \in (IF thermostat_ids = <<>>
                 THEN ListingsOf(sa.api) ELSE {NoSummary}) :
    \E s \in {Summarise(auth, now, thermostat_ids, status, None, sa, data)} :
    \E ga \in (IF thermostat_ids # <<>> \/ s.g.exc # ""
               THEN {NoAnswers} ELSE GatewayAnswers(s.g.auth, now)) :
    \E returned \in (IF ga.api.kind = "ok"
                     THEN SUBSET Requested(s.ids, None) ELSE {{}}) :
    \E revs \in Current(returned) :
    \E u \in {get_thermostat(auth, now, thermostat_ids, status, tid,
                             sa, data, ga, returned)} :
        /\ auth' = u.auth
        /\ thermostat_ids' = u.ids
        /\ status' = u.status
        /\ fetched' = IF u.exc = "" THEN Over(fetched, revs) ELSE fetched
        /\ call' = MethodCall("get_thermostat", tid, now, u, ga.api)
        /\ polled' = Polled(lastSeen, IF u.summarised THEN data ELSE NoSummary, <<>>)
        /\ UNCHANGED <<now, lastSeen, served, observed, callers, approved>>

\* The caller calls list_thermostats().
CallListThermostats ==
    /\ call' = MethodCall("list_thermostats", None, now,
                          Result(auth, <<>>, "", list_thermostats(thermostat_ids)),
                          NoApi)
    /\ polled' = Polled(lastSeen, NoSummary, <<>>)
    /\ UNCHANGED <<auth, now, thermostat_ids, status, lastSeen, served,
                   observed, fetched, callers, approved>>

\* poll() is called on the Thermostat that get_thermostat or
\* list_thermostats made for a registered device.
ThermostatPoll ==
    \E tid \in Members(thermostat_ids) :
    \E ans \in GatewayAnswers(auth, now) :
    \E data \in ReadingsOf(ans.api) :
    \E r \in {Thermostat_poll(tid, auth, now, thermostat_ids, status, lastSeen,
                              ans.r1, ans.api, ans.r2, data)} :
        /\ auth' = r.auth
        /\ thermostat_ids' = r.ids
        /\ status' = r.status
        /\ lastSeen' = r.lastSeen
        /\ served' = IF r.exc = "" THEN Over(served, Listed(data)) ELSE served
        /\ call' = MethodCall("Thermostat.poll", tid, now, r, ans.api)
        /\ polled' = Polled(lastSeen, data, r.updated)
        /\ UNCHANGED <<now, observed, fetched, callers, approved>>

\* update() is called on the Thermostat of a registered device.
ThermostatUpdate ==
    \E tid \in Members(thermostat_ids) : Update("Thermostat.update", tid)

\* The updated property of the objects.Thermostat made for Observer is read.
ReadUpdated ==
    /\ Observer \in Members(thermostat_ids)
    /\ \E u \in {Thermostat_updated(observed, lastSeen, Observer)} :
        /\ observed' = u.lastSeen
        /\ call' = MethodCall("updated", observed, now,
                              Result(auth, <<>>, "", u.ret), NoApi)
    /\ UNCHANGED <<auth, now, thermostat_ids, status, lastSeen, polled, served, fetched,
                   callers, approved>>

\* The client's authorization and gateway methods, called in any order as
\* time passes.
Next ==
    \/ Tick
    \/ CallAuthorizeStart
    \/ CallAuthorizeFinish
    \/ CallAuthorizeRefresh
    \/ CallGet
    \/ CallPost

Spec == Init /\ [][Next]_vars

\* poll() called again and again.
PollNext ==
    \/ CallPoll

PollSpec == PollInit /\ [][PollNext]_vars

\* The registry's methods, called in any order.
RegistryNext ==
    \/ CallThermostatSummary
    \/ CallPollListing
    \/ CallUpdate
    \/ CallGetThermostat
    \/ CallListThermostats

RegistrySpec == PollInit /\ [][RegistryNext]_vars

\* A client constructed with two devices.
ThermostatInit == Construct(<<"t1", "t2">>)

\* poll() and update() called on the Thermostat objects of the client.
ThermostatNext ==
    \/ ThermostatPoll
    \/ ThermostatUpdate

ThermostatSpec == ThermostatInit /\ [][ThermostatNext]_vars

\* poll() called on the client and updated read on an objects.Thermostat.
ObserverNext ==
    \/ CallPoll
    \/ ReadUpdated

ObserverSpec == PollInit /\ [][ObserverNext]_vars

(* ----------------- readings of the record and of a call ---------------- *)

\* In every state auth is the store the call recorded in call left, call.pre
\* the store it started from and call.at the time it was made.

\* The record holds a refresh_token, as authorize_refresh tests it.
HasRefresh(a) == ~Falsy(Get(a, "refresh_token", None))

\* not (expiration > now), as authorize_refresh tests it.
Expired(a, t) == ~("expiration" \in DOMAIN a /\ a["expiration"] > t)

\* A pin is pending: token_type is 'authorize' and no refresh_token.
PendingPin(a) == Get(a, "token_type", None) = "authorize" /\ ~HasRefresh(a)

\* The pin's expiration has passed, as authorize_finish tests it.
PinExpired(a, t) == "expiration" \in DOMAIN a /\ t > a["expiration"]

\* The same key with the same value, or the key in neither store.
SameField(a, b, k) ==
    /\ (k \in DOMAIN a) = (k \in DOMAIN b)
    /\ k \in DOMAIN a => a[k] = b[k]

EnsureValid == call.op \in {"authorize_refresh", "__init__"}
Gateway == call.op \in {"get", "post"}
IsGrant(sent) == sent.req = GrantRequest
IsExchange(sent) == sent.req.endpoint = "token" /\ sent.req.grant = "ecobeePin"
IsRefresh(sent) == sent.req.endpoint = "token" /\ sent.req.grant = "refresh_token"
IsApi(sent) == sent.req.endpoint \notin {"authorize", "token"}
Count(net, P(_)) == Cardinality({ i \in 1..Len(net) : P(net[i]) })

(* ------------------- authorization with a user ------------------------ *)

\* The clock of the authorization runs one minute further, so that a pin
\* issued at any minute of 0..MaxTime for MaxExpiresIn minutes can expire.
LiveMaxTime == MaxTime + MaxExpiresIn

\* The store holds a pin that the user can still approve.
Approvable(a, t) ==
    /\ PendingPin(a)
    /\ ~Falsy(Get(a, "access_token", None))
    /\ ~PinExpired(a, t)

\* The answers of a server that grants every pin asked for, refuses the
\* pin-to-token exchange until the user has approved the pin and accepts
\* it afterwards; net is the request the call sends.
LiveAnswers(net, ok) ==
    IF net = <<>> THEN {NoResponse}
    ELSE IF IsGrant(net[1]) THEN { r \in GrantResponses : r.kind = "ok" }
    ELSE IF IsExchange(net[1]) /\ ~ok
         THEN { r \in TokenResponses : r.kind = "notok" }
    ELSE { r \in TokenResponses : r.kind = "ok" }

\* The pin the store holds, if one is pending.
PinOf(a) == IF PendingPin(a) THEN Get(a, "access_token", None) ELSE None

\* Whether the user's approval stands after a call: it goes with the pin,
\* and is used up by the exchange.
StillApproved(a, b, ok) == ok /\ PinOf(b) # None /\ PinOf(b) = PinOf(a) /\ SameField(a, b, "expiration")

\* A new store file: shelve.open on a path that does not exist yet.
LiveInit ==
    /\ now = 0
    /\ auth = EmptyStore
    /\ call = MethodCall("shelve.open", None, 0, Result(EmptyStore, <<>>, "", None), NoApi)
    /\ thermostat_ids = <<>>
    /\ status = EmptyMap
    /\ lastSeen = EmptyMap
    /\ polled = Polled(EmptyMap, NoSummary, <<>>)
    /\ served = EmptyMap
    /\ observed = None
    /\ fetched = EmptyMap
    /\ callers = EmptyMap
    /\ approved = FALSE

\* Time passes; the user does not let a pin expire unapproved.
LivePass ==
    /\ now < LiveMaxTime
    /\ ~(Approvable(auth, now) /\ ~approved /\ ~Approvable(auth, now + 1))
    /\ now' = now + 1
    /\ UNCHANGED <<auth, thermostat_ids, status, lastSeen, served, call, polled,
                   observed, fetched, callers, approved>>

\* The user enters the pin on the ecobee portal.
Approve ==
    /\ Approvable(auth, now)
    /\ ~approved
    /\ approved' = TRUE
    /\ UNCHANGED <<auth, now, thermostat_ids, status, lastSeen, served, call,
                   polled, observed, fetched, callers>>

\* The caller invokes authorize_refresh() again.
Reinvoke ==
    \E r \in LiveAnswers(authorize_refresh(auth, now, TRUE, NoResponse).net, approved) :
    \E o \in {authorize_refresh(auth, now, TRUE, r)} :
        /\ auth' = o.auth
        /\ call' = AuthCall("authorize_refresh", TRUE, auth, now, o)
        /\ approved' = StillApproved(auth, o.auth, approved)
        /\ UNCHANGED <<now, thermostat_ids, status, lastSeen, polled, served,
                       observed, fetched, callers>>

\* A gateway call on an authorized record is answered with code 16: the
\* authorization was revoked.
Revoke ==
    /\ HasRefresh(auth)
    /\ \E r1 \in LiveAnswers(authorize_refresh(auth, now, TRUE, NoResponse).net, approved) :
       \E api \in {[kind |-> "error", code |-> AuthRevoked]} :
       \E r2 \in LiveAnswers(<<Sent(GrantRequest, NoResponse)>>, approved) :
       \E g \in {get(auth, now, "thermostat", r1, api, r2)} :
           /\ auth' = g.auth
           /\ call' = GatewayCall("get", auth, now, g, api)
           /\ approved' = FALSE
           /\ UNCHANGED <<now, thermostat_ids, status, lastSeen, polled, served,
                          observed, fetched, callers>>

LiveNext ==
    \/ LivePass
    \/ Approve
    \/ Reinvoke
    \/ Revoke

\* The caller keeps invoking authorize_refresh and the user approves each
\* pin while it is valid.
LiveSpec ==
    /\ LiveInit
    /\ [][LiveNext]_vars
    /\ WF_vars(Reinvoke)
    /\ WF_vars(Approve)

(* --------------------- two threads on one store ------------------------ *)

\* The threads that call authorize_refresh on the same Client.
Callers == {"c1", "c2"}

\* The writes of _authorize_update, in the order of lines 186-190.
Fields == <<"access_token", "token_type", "refresh_token", "expiration", "required">>

\* The statement after the write of a field that leaves refresh_token out.
Following_skipping(field) ==
    IF field = "token_type" THEN "expiration"
    ELSE IF field = "required" THEN "idle"
    ELSE Fields[(CHOOSE i \in 1..Len(Fields) : Fields[i] = field) + 1]

\* The statement after the write of a field: the next write, or the return.
Following(field) ==
    IF field = "required" THEN "idle"
    ELSE Fields[(CHOOSE i \in 1..Len(Fields) : Fields[i] = field) + 1]

\* The value _authorize_update writes to a field from the response resp
\* at time t.
Written(field, resp, t) ==
    IF field = "access_token" THEN resp.tok.access_token
    ELSE IF field = "token_type" THEN Bearer
    ELSE IF field = "refresh_token" THEN resp.tok.refresh_token
    ELSE IF field = "expiration" THEN t + resp.expires_in
    ELSE FALSE

\* A thread: the statement it is at ("idle" outside authorize_refresh), the
\* last token response it took into _authorize_update and the expiration it
\* computed from it.
Caller(pc, resp, exp) == [pc |-> pc, resp |-> resp, exp |-> exp]

\* The token responses that install a record.
Installing == { r \in TokenResponses : r.kind = "ok" }

\* One thread or two on a client that the first of them authorized: the
\* constructor was granted a pin and authorize_finish exchanged it.
RaceInit ==
    /\ now = 0
    /\ \E g \in { r \in GrantResponses : r.kind = "ok" } :
       \E r \in Installing :
       \E cs \in {{"c1"}, Callers} :
          /\ auth = authorize_finish(authorize_refresh(EmptyStore, 0, TRUE, g).auth, 0, r).auth
          /\ callers = [c \in cs |-> IF c = "c1" THEN Caller("idle", r, r.expires_in)
                                     ELSE Caller("idle", NoResponse, None)]
          /\ call = AuthCall("authorize_finish", TRUE, EmptyStore, 0, Outcome(auth, <<>>, ""))
    /\ thermostat_ids = <<>>
    /\ status = EmptyMap
    /\ lastSeen = EmptyMap
    /\ polled = Polled(EmptyMap, NoSummary, <<>>)
    /\ served = EmptyMap
    /\ observed = None
    /\ fetched = EmptyMap
    /\ approved = FALSE

\* What a step of a thread leaves alone.
RaceFrame ==
    UNCHANGED <<thermostat_ids, status, lastSeen, call, polled, served,
                observed, fetched, approved>>

\* Thread c enters authorize_refresh, line 160: without a refresh_token it
\* goes through authorize_start, otherwise on to the expiry test.
RefreshEnter(c) ==
    /\ callers[c].pc = "idle"
    /\ IF Falsy(Get(auth, "refresh_token", None))
       THEN \E r \in AnswersTo(authorize_start(auth, now, NoResponse).net) :
               /\ auth' = authorize_start(auth, now, r).auth
               /\ UNCHANGED callers
       ELSE /\ callers' = [callers EXCEPT ![c].pc = "expiry"]
            /\ UNCHANGED auth
    /\ UNCHANGED now
    /\ RaceFrame

\* Line 165: a record that has not expired needs no refresh.
RefreshExpiry(c) ==
    /\ callers[c].pc = "expiry"
    /\ callers' = [callers EXCEPT ![c].pc =
                      IF "expiration" \in DOMAIN auth /\ auth["expiration"] > now
                      THEN "idle" ELSE "request"]
    /\ UNCHANGED <<auth, now>>
    /\ RaceFrame

\* Lines 169-172 and 179-182: the refresh exchange is sent and answered; a
\* connection error and a refusal end the call, a token response is taken
\* into _authorize_update.
RefreshRequest(c) ==
    /\ callers[c].pc = "request"
    /\ \E r \in TokenResponses :
          callers' = [callers EXCEPT ![c] =
                         IF r.kind = "ok" THEN Caller(Fields[1], r, callers[c].exp)
                         ELSE Caller("idle", callers[c].resp, callers[c].exp)]
    /\ UNCHANGED <<auth, now>>
    /\ RaceFrame

\* One of the lines 186-190: thread c writes the field it is at.
RefreshWrite(c) ==
    /\ callers[c].pc \in Members(Fields)
    /\ \E field \in {callers[c].pc} :
          /\ auth' = Put(auth, field, Written(field, callers[c].resp, now))
          /\ callers' = [callers EXCEPT
                            ![c].pc = Following(field),
                            ![c].exp = IF field = "expiration"
                                       THEN Written(field, callers[c].resp, now)
                                       ELSE callers[c].exp]
    /\ UNCHANGED now
    /\ RaceFrame

\* Any thread takes its next step.
ThreadEnters   == \E c \in DOMAIN callers : RefreshEnter(c)
ThreadTests    == \E c \in DOMAIN callers : RefreshExpiry(c)
ThreadRequests == \E c \in DOMAIN callers : RefreshRequest(c)
ThreadWrites   == \E c \in DOMAIN callers : RefreshWrite(c)

\* The threads run authorize_refresh again and again, interleaved statement
\* by statement, as time passes.
RaceNext ==
    \/ Tick
    \/ ThreadEnters
    \/ ThreadTests
    \/ ThreadRequests
    \/ ThreadWrites

RaceSpec == RaceInit /\ [][RaceNext]_vars

(* ------------------------------ claims --------------------------------- *)

\* C1 (as claimed): ensure_valid on a pending pin whose expiration has
\* passed discards the pin and restarts the grant: it sends a GET authorize,
\* and a pin left in the store afterwards is a fresh one, not yet expired.
C1_ExpiredPinRestartsGrant ==
    ( /\ call.op = "authorize_refresh"
      /\ PendingPin(call.pre)
      /\ ~Falsy(Get(call.pre, "access_token", None))
      /\ PinExpired(call.pre, call.at) )
    => /\ Count(call.net, IsGrant) = 1
       /\ ~Falsy(Get(auth, "access_token", None)) => auth["expiration"] >= call.at

\* C2 (as claimed): a gateway call answered with code 14 returns nothing
\* and raises nothing, leaves refresh_token as it was, and sends a
\* refresh-token exchange after the request.
C2_Code14ForcesRefresh ==
    ( /\ Gateway
      /\ call.api.kind = "error"
      /\ call.api.code = 14 )
    => /\ call.exc = ""
       /\ call.ret = None
       /\ SameField(auth, call.pre, "refresh_token")
       /\ Len(call.net) >= 2
       /\ IsApi(call.net[Len(call.net) - 1])
       /\ IsRefresh(call.net[Len(call.net)])

\* A gateway call was answered with code 16.
Revoked == Gateway /\ call.api.kind = "error" /\ call.api.code = AuthRevoked

\* What C3 says of the store and the requests: refresh_token and token_type
\* cleared (token_type set again to 'authorize' only by the grant that
\* follows), the grant request sent right after the answered request,
\* nothing returned, and no refresh-token exchange in the next ensure_valid.
RevokedEffects ==
    /\ auth["refresh_token"] = None
    /\ auth["token_type"] \in {None, "authorize"}
    /\ (auth["token_type"] = "authorize") = (call.net[Len(call.net)].answer = "ok")
    /\ Len(call.net) >= 2
    /\ IsApi(call.net[Len(call.net) - 1])
    /\ IsGrant(call.net[Len(call.net)])
    /\ call.ret = None
    /\ Count(authorize_refresh(auth, now, FALSE, NoResponse).net, IsRefresh) = 0

\* C3 (as claimed): a gateway call answered with code 16 clears
\* refresh_token and token_type, sends the grant request, returns nothing
\* without raising, and the next ensure_valid does not attempt a refresh.
C3_RevokedNeverRaises == Revoked => RevokedEffects /\ call.exc = ""

\* C3 (amended): as claimed, but the call raises exactly when the grant
\* request it sends meets a connection error, which reaches the caller as
\* an EcobeeException.
C3_Revoked ==
    Revoked =>
        /\ RevokedEffects
        /\ call.exc = IF call.net[Len(call.net)].answer = "connerr"
                      THEN ConnectionError ELSE ""

C3_Witness ==
    /\ Revoked
    /\ HasRefresh(call.pre)
    /\ call.exc = ""
    /\ auth["token_type"] = "authorize"

\* C4: authorize_refresh on a record with a refresh_token and an expiration
\* in the future sends nothing, raises nothing and leaves every field of
\* the record as it was.
C4_UnexpiredIsNoOp ==
    ( /\ call.op = "authorize_refresh"
      /\ HasRefresh(call.pre)
      /\ "expiration" \in DOMAIN call.pre
      /\ call.pre["expiration"] > call.at )
    => /\ call.net = <<>>
       /\ call.exc = ""
       /\ auth = call.pre

C4_Witness ==
    /\ call.op = "authorize_refresh"
    /\ ~call.force
    /\ HasRefresh(call.pre)
    /\ call.pre["expiration"] > call.at
    /\ call.net = <<>>

\* C5 (as claimed): authorize_refresh on a record with a refresh_token
\* sends the refresh-token exchange whenever the record is expired or the
\* call is forced, and a successful answer installs the new record.
C5_ForcedOrExpiredRefreshes ==
    ( /\ call.op = "authorize_refresh"
      /\ HasRefresh(call.pre)
      /\ (Expired(call.pre, call.at) \/ call.force) )
    => /\ Len(call.net) = 1
       /\ call.net[1].req = TokenRequest("refresh_token", call.pre["refresh_token"])
       /\ call.net[1].answer = "ok" =>
             /\ auth["token_type"] = Bearer
             /\ auth["required"] = FALSE
             /\ auth["expiration"] >= call.at
             /\ \E tok \in Tokens :
                   /\ auth["access_token"] = tok.access_token
                   /\ auth["refresh_token"] = tok.refresh_token

\* C6 (as claimed): ensure_valid on a record without a refresh_token always
\* sends one request of the device-pin grant path: the pin-to-token
\* exchange when an unexpired pin is pending, the grant request otherwise.
C6_NoRefreshTokenStartsGrant ==
    ( /\ EnsureValid
      /\ ~HasRefresh(call.pre) )
    => /\ Len(call.net) = 1
       /\ IF /\ PendingPin(call.pre)
             /\ ~Falsy(Get(call.pre, "access_token", None))
             /\ ~PinExpired(call.pre, call.at)
          THEN IsExchange(call.net[1])
          ELSE IsGrant(call.net[1])

\* The authorization request of a call of ensure_valid met a connection
\* error.
TransportFailure ==
    /\ EnsureValid
    /\ call.net # <<>>
    /\ call.net[Len(call.net)].answer = "connerr"

\* C7 (as claimed): a connection error during the grant request, the
\* pin-to-token exchange or the refresh exchange raises nothing and leaves
\* the record exactly as it was.
C7_TransportFailureIsNoOp ==
    TransportFailure => call.exc = "" /\ auth = call.pre

\* C7 (amended): such a connection error reaches the caller as an
\* EcobeeException; access_token, token_type, refresh_token and expiration
\* are left as they were (authorize_start has set required to True).
C7_TransportFailureRaises ==
    TransportFailure =>
        /\ call.exc = ConnectionError
        /\ \A k \in {"access_token", "token_type", "refresh_token", "expiration"} :
              SameField(auth, call.pre, k)
        /\ auth \in {call.pre, Put(call.pre, "required", TRUE)}

C7_Witness ==
    /\ TransportFailure
    /\ call.op = "authorize_refresh"
    /\ IsExchange(call.net[1])

\* The devices of a summary whose interval revision is not the one seen, in
\* the summary's order.
RECURSIVE Changed(_, _)
Changed(rows, seen) ==
    IF rows = <<>> THEN <<>>
    ELSE LET id  == Head(rows)[1]
             rev == Head(rows)[Len(Head(rows))]
         IN  IF rev # Lookup(seen, id)
             THEN <<id>> \o Changed(Tail(rows), seen)
             ELSE Changed(Tail(rows), seen)

PollReturned == call.op = "poll" /\ call.exc = ""

\* C8: poll returns exactly the devices of the summary whose interval
\* revision differs from the stored one or that have none stored; each
\* device returned has the new revision stored; and lastSeen holds, per
\* device, the revision of the most recent summary that listed it.
C8_PollReportsChanged ==
    /\ lastSeen = served
    /\ PollReturned =>
          /\ polled.updated = Changed(polled.summary.revisionList, polled.seen)
          /\ \A i \in 1..Len(polled.updated) :
                /\ polled.updated[i] \in DOMAIN Listed(polled.summary)
                /\ lastSeen[polled.updated[i]] = Listed(polled.summary)[polled.updated[i]]

C8_Witness ==
    /\ PollReturned
    /\ Len(polled.summary.revisionList) = 2
    /\ Len(polled.updated) = 1
    /\ polled.seen # EmptyMap
    /\ polled.updated[1] \in DOMAIN polled.seen

\* C9: a poll that follows a poll of the same summary returns nothing; and
\* a device is returned only if the summary's revision for it is not the
\* one of the last summary that listed it.
C9_AtMostOncePerChange ==
    [][ (call'.op = "poll" /\ call'.exc = "") =>
          /\ (PollReturned /\ polled'.summary = polled.summary)
                => polled'.updated = <<>>
          /\ \A i \in 1..Len(polled'.updated) :
                LET id == polled'.updated[i]
                IN  id \in DOMAIN served =>
                        Listed(polled'.summary)[id] # served[id] ]_vars

C9_Witness ==
    /\ PollReturned
    /\ polled.summary.revisionList # <<>>
    /\ polled.updated = <<>>

\* C10: a gateway call sends the authenticated request at most once, on
\* every outcome: once when the call reaches the dispatch, and no more
\* after a connection error, a code-14 answer, a code-16 answer or any
\* other error, whatever authorization requests it also sends.
C10_DispatchedAtMostOnce ==
    Gateway =>
        /\ Count(call.net, IsApi) = (IF call.api.kind = "none" THEN 0 ELSE 1)
        /\ Len(call.net) <= 3

C10_Witness ==
    /\ Revoked
    /\ Len(call.net) = 3
    /\ IsRefresh(call.net[1])

\* The record says that no authorization by the user is required.
NotRequired == "required" \in DOMAIN auth /\ auth["required"] = FALSE

\* access_token and refresh_token are both present.
HasTokens(a) == ~Falsy(Get(a, "access_token", None)) /\ HasRefresh(a)

\* C11 (as claimed): between operations, required == false implies that
\* access_token and refresh_token are both present and that the record has
\* not expired.
C11_NotRequiredIsUnexpired ==
    NotRequired =>
        /\ HasTokens(auth)
        /\ "expiration" \in DOMAIN auth
        /\ now <= auth["expiration"]

\* C11 (amended): between operations, required == false implies that
\* access_token and refresh_token are both present, with the server's
\* token_type and an expiration; the expiration may have passed.
C11_NotRequiredHasTokens ==
    NotRequired =>
        /\ HasTokens(auth)
        /\ auth["token_type"] = Bearer
        /\ "expiration" \in DOMAIN auth

C11_Witness ==
    /\ NotRequired
    /\ HasTokens(auth)
    /\ now > auth["expiration"]

\* A call of an authorization method ended with a pin-to-token exchange that
\* the server answered with tokens.
ExchangeSucceeded ==
    /\ call.op \in {"authorize_start", "authorize_finish", "authorize_refresh"}
    /\ call.net # <<>>
    /\ IsExchange(call.net[Len(call.net)])
    /\ call.net[Len(call.net)].answer = "ok"

\* The record is a full one, written at time t: the five fields, from one
\* answer of the server.
Wholesale(a, t) ==
    /\ DOMAIN a = {"access_token", "token_type", "refresh_token", "expiration", "required"}
    /\ a["token_type"] = Bearer
    /\ a["required"] = FALSE
    /\ \E tok \in Tokens :
          /\ a["access_token"] = tok.access_token
          /\ a["refresh_token"] = tok.refresh_token
    /\ a["expiration"] \in { t + e : e \in ExpiresIn }

\* authorize_refresh(force=False), called now, sends nothing.
NoFurtherCall == authorize_refresh(auth, now, FALSE, NoResponse).net = <<>>

\* C12 (as claimed): a successful pin-to-token exchange, whatever its
\* expires_in, replaces the record wholesale, and an authorize_refresh that
\* follows at once sends nothing.
C12_ExchangeThenNoCall ==
    (ExchangeSucceeded /\ now = call.at) =>
        /\ Wholesale(auth, call.at)
        /\ NoFurtherCall

\* C12 (amended): a successful pin-to-token exchange replaces the record
\* wholesale, and an authorize_refresh that follows at once sends nothing
\* exactly when the answer's expires_in was positive; with expires_in 0 the
\* record is expired as written and the call sends a refresh exchange.
C12_ExchangeThenNoCallUnlessExpired ==
    (ExchangeSucceeded /\ now = call.at) =>
        /\ Wholesale(auth, call.at)
        /\ NoFurtherCall = (auth["expiration"] > call.at)
        /\ ~NoFurtherCall =>
              IsRefresh(authorize_refresh(auth, now, FALSE, NoResponse).net[1])

C12_Witness ==
    /\ ExchangeSucceeded
    /\ now = call.at
    /\ auth["expiration"] > call.at
    /\ NoFurtherCall

\* The authenticated request a gateway call sent.
Dispatched == Gateway /\ call.api.kind # "none"
Request == call.net[Len(call.net) - (IF Revoked THEN 1 ELSE 0)].req

\* C13 (as claimed): get sends an HTTP GET with the payload in the query
\* parameter json, post an HTTP POST with the payload as the body, both
\* with the Authorization header made of the record's token_type and
\* access_token.
C13_WireContract ==
    Dispatched =>
        /\ Request.verb = (IF call.op = "get" THEN "GET" ELSE "POST")
        /\ Request.payload = (IF call.op = "get" THEN "params.json" ELSE "data")
        /\ call.api.kind = "ok" =>
              /\ Request.token_type = auth["token_type"]
              /\ Request.code = auth["access_token"]

\* C20 (as claimed): the authenticated request goes out only with a bearer
\* credential: the server's token_type and an access_token the server
\* issued with a refresh_token, never a pin, a cleared field or a missing
\* key.
C20_DispatchedWithBearer ==
    Dispatched =>
        /\ Request.token_type = Bearer
        /\ \E tok \in Tokens : Request.code = tok.access_token
        /\ call.api.kind = "ok" => HasRefresh(auth)

\* A gateway call was answered with a non-success status and a body that is
\* not JSON.
NotJson == Gateway /\ call.api.kind = "notjson"

\* C17: such a call raises an EcobeeException that carries the response
\* text, returns nothing, and leaves the record as it was when the request
\* went out: as the authorize_refresh that get and post start with left it,
\* with the token_type and access_token that went out in the header.
C17_NotJsonRaises ==
    NotJson =>
        /\ call.exc = NotJsonError
        /\ call.ret = None
        /\ IsApi(call.net[Len(call.net)])
        /\ auth["access_token"] = Request.code
        /\ auth["token_type"] = Request.token_type
        /\ auth \in { authorize_refresh(call.pre, call.at, TRUE, r).auth :
                         r \in { x \in AnswersTo(authorize_refresh(call.pre, call.at,
                                                  TRUE, NoResponse).net) :
                                    Len(call.net) = 2 => x.kind = call.net[1].answer } }

C17_Witness ==
    /\ NotJson
    /\ Len(call.net) = 2
    /\ IsRefresh(call.net[1])
    /\ call.net[1].answer = "ok"
    /\ call.exc = NotJsonError

\* C14 (as claimed): revisions are compared by equality alone: poll reports
\* the devices whose revision is not the one stored, and the updated
\* property is True exactly when the revision the client holds for the
\* device is not the one the object saw last, whichever sorts first.
C14_ComparedByEquality ==
    /\ PollReturned =>
          polled.updated = Changed(polled.summary.revisionList, polled.seen)
    /\ (call.op = "updated" /\ Observer \in DOMAIN lastSeen) =>
          (call.ret = "True") = (call.arg # lastSeen[Observer])

\* C15: poll never removes an entry of lastSeen, and leaves the entry of
\* every device that the summary does not list as it was.
C15_AbsentUntouched ==
    [][ /\ DOMAIN lastSeen \subseteq DOMAIN lastSeen'
        /\ \A d \in DOMAIN lastSeen :
              d \notin DOMAIN Listed(polled'.summary) => lastSeen'[d] = lastSeen[d]
      ]_vars

C15_Witness ==
    /\ PollReturned
    /\ Len(polled.updated) = 1
    /\ \E d \in DOMAIN polled.seen :
          /\ d \notin DOMAIN Listed(polled.summary)
          /\ d \in DOMAIN lastSeen
          /\ lastSeen[d] = polled.seen[d]

\* C16: the registry only grows, in place: every call leaves the ids it
\* found where they were, and a call that went through a summary leaves
\* every id of its revisionList in the registry.
C16_RegistryGrows ==
    [][ /\ Len(thermostat_ids) <= Len(thermostat_ids')
        /\ SubSeq(thermostat_ids', 1, Len(thermostat_ids)) = thermostat_ids
        /\ (call'.exc = "" \/ call'.op \in {"update", "get_thermostat"}) =>
              DOMAIN Listed(polled'.summary) \subseteq Members(thermostat_ids')
      ]_vars

C16_Witness ==
    /\ call.op \in {"poll", "thermostatSummary"}
    /\ call.exc = ""
    /\ DOMAIN Listed(polled.summary) = {"t2"}
    /\ thermostat_ids = <<"t1", "t2">>

\* The summary request of a poll was answered with code 16, or with a
\* result that has no revisionList.
NothingToRead ==
    /\ call.op = "poll"
    /\ \/ call.api.kind = "error" /\ call.api.code = AuthRevoked
       \/ call.api.kind = "ok" /\ ~polled.summary.has

\* C18 (as claimed): such a poll returns an empty list and raises nothing.
C18_RevocationIsEmptyResult ==
    NothingToRead => call.exc = "" /\ polled.updated = <<>>

\* C19 (as claimed): poll on a Thermostat returns True whenever the
\* device's revision is no longer the one its data was last fetched at by
\* update, whatever polls were made in between; it returns False only when
\* the data was fetched and the revision is still that one.
C19_TrueWhenChanged ==
    (call.op = "Thermostat.poll" /\ call.exc = "") =>
        LET tid == call.arg
            rev == Listed(polled.summary)
        IN  /\ ( /\ tid \in DOMAIN fetched
                 /\ tid \in DOMAIN rev
                 /\ rev[tid] # fetched[tid] ) => call.ret = "True"
            /\ call.ret = "False" =>
                  /\ status[tid] = Data
                  /\ tid \in DOMAIN rev =>
                        tid \in DOMAIN fetched /\ rev[tid] = fetched[tid]

\* A call of ensure_valid found an unexpired pin pending and the server
\* refused the pin-to-token exchange with a JSON error body: the user has
\* not approved yet.
NotYetApproved ==
    /\ EnsureValid
    /\ PendingPin(call.pre)
    /\ ~Falsy(Get(call.pre, "access_token", None))
    /\ ~PinExpired(call.pre, call.at)
    /\ call.net # <<>>
    /\ call.net[1].answer = "notok"

\* C22: ensure_valid on a pending, unexpired pin sends the pin-to-token
\* exchange, and nothing else; when the server refuses it with a JSON error
\* body the call raises nothing and leaves every field of the record as it
\* was, so the next call, made before the pin expires, sends the exchange
\* with the same pin.
C22_RefusedExchangeKeepsPin ==
    /\ ( /\ EnsureValid
         /\ PendingPin(call.pre)
         /\ ~Falsy(Get(call.pre, "access_token", None))
         /\ ~PinExpired(call.pre, call.at) )
       => /\ Len(call.net) = 1
          /\ call.net[1].req = TokenRequest("ecobeePin", call.pre["access_token"])
    /\ NotYetApproved =>
          /\ call.exc = ""
          /\ auth = call.pre
          /\ ~PinExpired(auth, now) =>
                \E r \in {authorize_refresh(auth, now, TRUE, NoResponse)} :
                    /\ Len(r.net) = 1
                    /\ r.net[1].req = TokenRequest("ecobeePin", call.pre["access_token"])

C22_Witness ==
    /\ NotYetApproved
    /\ call.op = "authorize_refresh"
    /\ auth["access_token"] = "pin1"
    /\ auth["required"] = TRUE
    /\ ~PinExpired(auth, now)

\* C24 (as claimed): authorize_start on a record that holds a refresh_token
\* sends no request and leaves every field of the record as it was, so
\* authentication_required is still False afterwards.
C24_StartOnAuthorizedIsNoOp ==
    (call.op = "authorize_start" /\ HasRefresh(call.pre)) =>
        /\ call.net = <<>>
        /\ auth = call.pre
        /\ authentication_required(auth) = authentication_required(call.pre)

\* The record is authorized: a refresh_token, the server's token_type and
\* required False.
Authorized ==
    /\ HasRefresh(auth)
    /\ Get(auth, "token_type", None) = Bearer
    /\ NotRequired

\* C23 (as claimed): from the empty store and from the record a revocation
\* leaves, a caller that keeps invoking ensure_valid, a server that grants
\* every pin and a user who approves each pin before it expires lead to an
\* authorized record.
C23_EventuallyAuthorized == (~Authorized) ~> Authorized

\* No thread is inside authorize_refresh.
BetweenOperations == \A c \in DOMAIN callers : callers[c].pc = "idle"

\* access_token, refresh_token and expiration of the store are those of one
\* token response that a thread installed.
Paired ==
    \E c \in DOMAIN callers :
        /\ callers[c].resp.kind = "ok"
        /\ auth["access_token"] = callers[c].resp.tok.access_token
        /\ auth["refresh_token"] = callers[c].resp.tok.refresh_token
        /\ auth["expiration"] = callers[c].exp

\* C21: with a single thread calling authorize_refresh, between two calls
\* the access_token, refresh_token and expiration of the store all come
\* from the same token response.  (With two threads a state between calls
\* where they do not is reachable: C21_Witness.)
C21_SingleCallerPaired ==
    (DOMAIN callers = {"c1"} /\ BetweenOperations) => Paired

C21_Witness ==
    /\ DOMAIN callers = Callers
    /\ BetweenOperations
    /\ ~Paired
    /\ \E c \in Callers :
          /\ callers[c].resp.kind = "ok"
          /\ auth["access_token"] = callers[c].resp.tok.access_token
          /\ auth["refresh_token"] # callers[c].resp.tok.refresh_token
          /\ auth["expiration"] # callers[c].exp

====
